---- MODULE Spec2Model ----
(***************************************************************************)
(* State-machine model of src/lstm.py:                                     *)
(*   - UnconditionalLSTM.generate_measure_encodings (the bounded-memory    *)
(*     measure-encoding aggregator),                                       *)
(*   - ConditionalLSTM.forward (the measure-encoding lookup), and          *)
(*   - ConditionalLSTM.generate (bass phase A, melody decoding phase B).   *)
(* Hidden vectors are modelled as one-dimensional integers, a mean as the  *)
(* reduced fraction <<numerator, denominator>>, and the musical offset in  *)
(* eighths of a quarter note (0.125 quarter notes = 1 unit).               *)
(***************************************************************************)
EXTENDS Integers, Sequences, FiniteSets, TLC

VARIABLES
    \* ---- generate_measure_encodings ----
    a_pc,                           \* "loop" while positions are consumed, "done" after the final dump
    buffer_threshold,               \* the watermark
    buffer_dict,                    \* track -> measure -> list of hidden vectors
    track_id_to_measure_encodings,  \* track -> measure -> mean
    seen,                           \* history: the positions consumed so far, in order
    epochs,                         \* history: for each consumed position, the number of flushes before it was buffered
    \* ---- ConditionalLSTM.forward ----
    f_pc,                           \* "idle", "done" after a forward call, "error" if it raised
    measure_enc_lookup,             \* None or track -> measure -> encoding
    f_track_ids, f_measure_ids,     \* the batch of the last forward call (flattened)
    f_measure_encs,                 \* the conditioning vectors the last forward call used
    \* ---- ConditionalLSTM.generate ----
    g_pc,                           \* "idle", "loop", "done", "error"
    bassline_model,                 \* None or the bass model
    melody_condition,               \* the seed
    melody_length,
    bass_output_idxs_by_measure,    \* the measure splitter's index groups
    num_bass_measures,
    self_model,                     \* None or the conditional model generate was called on
    bass_lstm_out,                  \* Unbound or the hidden vectors phase A averages
    bass_measure_encodings,         \* Unbound or the sequence of bass-measure encodings
    output,                         \* the melody tokens
    measure_encs,                   \* the conditioning accumulator
    cur_measure, measure_offset,    \* the musical-time cursor (offset in eighths of a quarter note)
    i,                              \* the loop index of the next decoding step = the number of steps executed
    \* ---- mask_logits ----
    m_pc,                           \* "idle", "called", "done", "error" if it raised
    m_logits,                       \* the argument logits: a batch of rows
    m_k,                            \* the argument k: None or an integer
    m_masked                        \* the returned tensor

aggVars == <<a_pc, buffer_threshold, buffer_dict, track_id_to_measure_encodings, seen, epochs>>
fwdVars == <<f_pc, measure_enc_lookup, f_track_ids, f_measure_ids, f_measure_encs>>
genVars == <<g_pc, self_model, bass_lstm_out, bassline_model, melody_condition, melody_length, bass_output_idxs_by_measure,
             num_bass_measures, bass_measure_encodings, output, measure_encs, cur_measure,
             measure_offset, i>>
maskVars == <<m_pc, m_logits, m_k, m_masked>>
vars == <<aggVars, fwdVars, genVars, maskVars>>

\* An optional value: None, or Some(v).  An unbound local reads like None.
None == <<>>
Some(v) == <<v>>
Val(o) == o[1]
Unbound == None

\* ------------------------------------------------------------------------
\* Shared helpers: dictionaries and means
\* ------------------------------------------------------------------------

EmptyDict == [x \in {} |-> 0]

DictSet(d, k, v) == [x \in (DOMAIN d) \cup {k} |-> IF x = k THEN v ELSE d[x]]

\* dict.get(k): the value, or None when the key is absent
DictGet(d, k) == IF k \in DOMAIN d THEN Some(d[k]) ELSE None

\* d[k] on a plain dict: the value, or None for a KeyError
DictIndex(d, k) == IF k \in DOMAIN d THEN Some(d[k]) ELSE None

\* s[idx] on a list or tensor (0-based, a negative index counts from the end):
\* the value, or None for an IndexError
PyIndex(s, idx) ==
    LET j == IF idx < 0 THEN idx + Len(s) ELSE idx
    IN  IF j >= 0 /\ j < Len(s) THEN Some(s[j + 1]) ELSE None

Min(a, b) == IF a < b THEN a ELSE b

RECURSIVE Sum(_)
Sum(s) == IF s = <<>> THEN 0 ELSE Head(s) + Sum(Tail(s))

RECURSIVE GCD(_, _)
GCD(a, b) == IF b = 0 THEN a ELSE GCD(b, a % b)

\* torch.mean(torch.tensor(list), dim=0): the arithmetic mean, as a reduced fraction
Mean(s) ==
    LET g == GCD(Sum(s), Len(s))
    IN  <<Sum(s) \div g, Len(s) \div g>>

ZeroVec == <<0, 1>>

\* ------------------------------------------------------------------------
\* UnconditionalLSTM.generate_measure_encodings
\* ------------------------------------------------------------------------

InitialThreshold == 100
buffer_threshold_increment == 100

\* Bound: the number of positions of the dataset
MaxPositions == 4

\* Inputs: the track ids, measure ids and hidden vectors a position can carry
TrackIds == {0, 100, 350}
MeasureIds == {0, 1}
HiddenVals == {1, 3}

\* buffer_dict[track_id][measure_id].append(model_hidden) on auto-vivifying dicts
BufferAppend(buf, t, m, h) ==
    LET tr  == IF t \in DOMAIN buf THEN buf[t] ELSE EmptyDict
        lst == IF m \in DOMAIN tr THEN tr[m] ELSE <<>>
    IN  DictSet(buf, t, DictSet(tr, m, Append(lst, h)))

\* Faulty variant: a key already in the table keeps its earlier value
DumpBuffer_KeepOld(table, buf) ==
    [t \in (DOMAIN table) \cup (DOMAIN buf) |->
        LET old == IF t \in DOMAIN table THEN table[t] ELSE EmptyDict
            new == IF t \in DOMAIN buf THEN buf[t] ELSE EmptyDict
        IN  [m \in (DOMAIN old) \cup (DOMAIN new) |->
                IF m \in DOMAIN old THEN old[m] ELSE Mean(new[m])]]

\* Faulty variant: the dump replaces the table instead of merging into it
DumpBuffer_Replace(table, buf) ==
    [t \in DOMAIN buf |-> [m \in DOMAIN buf[t] |-> Mean(buf[t][m])]]

\* The dump loop: every buffered bucket is written to the table as its mean
DumpBuffer(table, buf) ==
    [t \in (DOMAIN table) \cup (DOMAIN buf) |->
        IF t \in DOMAIN buf
        THEN LET old == IF t \in DOMAIN table THEN table[t] ELSE EmptyDict
             IN  [m \in (DOMAIN old) \cup (DOMAIN buf[t]) |->
                    IF m \in DOMAIN buf[t] THEN Mean(buf[t][m]) ELSE old[m]]
        ELSE table[t]]

\* Faulty variant: the flush test is strict
ThresholdReached_Strict(track_id, threshold) == track_id > threshold

\* The flush test of one position
ThresholdReached(track_id, threshold) == track_id >= threshold

AggInit ==
    /\ a_pc = "loop"
    /\ buffer_threshold = InitialThreshold
    /\ buffer_dict = EmptyDict
    /\ track_id_to_measure_encodings = EmptyDict
    /\ seen = <<>>
    /\ epochs = <<>>

\* One iteration of the inner loop: one position of the dataset
Position(track_id, measure_id, model_hidden) ==
    /\ a_pc = "loop"
    /\ seen' = Append(seen, [track |-> track_id, measure |-> measure_id, hidden |-> model_hidden])
    /\ IF ThresholdReached(track_id, buffer_threshold)
       THEN /\ buffer_threshold' = buffer_threshold + buffer_threshold_increment
            /\ track_id_to_measure_encodings' = DumpBuffer(track_id_to_measure_encodings, buffer_dict)
            /\ buffer_dict' = BufferAppend(EmptyDict, track_id, measure_id, model_hidden)
            /\ epochs' = Append(epochs, (IF epochs = <<>> THEN 0 ELSE epochs[Len(epochs)]) + 1)
       ELSE /\ buffer_threshold' = buffer_threshold
            /\ track_id_to_measure_encodings' = track_id_to_measure_encodings
            /\ buffer_dict' = BufferAppend(buffer_dict, track_id, measure_id, model_hidden)
            /\ epochs' = Append(epochs, IF epochs = <<>> THEN 0 ELSE epochs[Len(epochs)])
    /\ a_pc' = a_pc

\* The dataset is exhausted: the final dump
FinalDump ==
    /\ a_pc = "loop"
    /\ track_id_to_measure_encodings' = DumpBuffer(track_id_to_measure_encodings, buffer_dict)
    /\ a_pc' = "done"
    /\ UNCHANGED <<buffer_threshold, buffer_dict, seen, epochs>>

\* Any dataset of at most MaxPositions positions
AggNext ==
    \/ \E t \in TrackIds, m \in MeasureIds, h \in HiddenVals :
          Len(seen) < MaxPositions /\ Position(t, m, h) /\ UNCHANGED <<fwdVars, genVars, maskVars>>
    \/ FinalDump /\ UNCHANGED <<fwdVars, genVars, maskVars>>

\* The dataset of consecutive track ids 0, 1, 2, ... in increasing order, each
\* track with PositionsPerTrack positions of measure 0
ScenarioTracks == 150
PositionsPerTrack == 2

ScenarioTrack(n) == n \div PositionsPerTrack
ScenarioHidden(n) == 1 + 2 * (n % 2)

ScenarioNext ==
    \/ /\ Len(seen) < ScenarioTracks * PositionsPerTrack
       /\ Position(ScenarioTrack(Len(seen)), 0, ScenarioHidden(Len(seen)))
       /\ UNCHANGED <<fwdVars, genVars, maskVars>>
    \/ /\ Len(seen) = ScenarioTracks * PositionsPerTrack
       /\ FinalDump
       /\ UNCHANGED <<fwdVars, genVars, maskVars>>

\* ------------------------------------------------------------------------
\* ConditionalLSTM.forward: the measure-encoding lookup
\* ------------------------------------------------------------------------

\* Bound: the number of positions of a forward batch
MaxBatch == 2

\* Inputs: the lookup tables fit/evaluate can load, and the ids of a batch
LookupTables ==
    { EmptyDict,
      (0 :> (0 :> <<5, 1>> @@ 1 :> <<7, 2>>)) @@ (1 :> (1 :> <<3, 1>>)) }
FwdTrackIds == {0, 1, 2}
FwdMeasureIds == {0, 1}

\* Faulty variant: a present track is indexed by the measure without the miss test
LookupEnc_NoMeasureGuard(lookup, track_id, measure_id) ==
    IF lookup = None
    THEN Some(ZeroVec)
    ELSE LET measures == DictGet(Val(lookup), track_id)
         IN  IF measures = None THEN Some(ZeroVec) ELSE DictIndex(Val(measures), measure_id)

\* The conditioning vector of one position: Some(vector), or None if the
\* lookup raised
LookupEnc(lookup, track_id, measure_id) ==
    IF lookup = None
    THEN Some(ZeroVec)
    ELSE LET measures == DictGet(Val(lookup), track_id)
         IN  IF measures = None
             THEN Some(ZeroVec)
             ELSE LET enc == DictGet(Val(measures), measure_id)
                  IN  IF enc = None
                      THEN Some(ZeroVec)
                      ELSE LET tr == DictIndex(Val(lookup), track_id)
                           IN  IF tr = None THEN None ELSE DictIndex(Val(tr), measure_id)

FwdInit ==
    /\ f_pc = "idle"
    /\ measure_enc_lookup = None
    /\ f_track_ids = <<>>
    /\ f_measure_ids = <<>>
    /\ f_measure_encs = <<>>

\* fit / evaluate with a measure_enc_dir: the pickled table becomes the lookup
LoadLookup(table) ==
    /\ measure_enc_lookup' = Some(table)
    /\ UNCHANGED <<f_pc, f_track_ids, f_measure_ids, f_measure_encs>>

\* One forward call on a batch (flattened to its positions)
Forward(track_ids, measure_ids) ==
    LET encs == [j \in 1..Len(track_ids) |->
                    LookupEnc(measure_enc_lookup, track_ids[j], measure_ids[j])]
    IN  /\ f_track_ids' = track_ids
        /\ f_measure_ids' = measure_ids
        /\ IF \E j \in 1..Len(track_ids) : encs[j] = None
           THEN /\ f_pc' = "error"
                /\ f_measure_encs' = <<>>
           ELSE /\ f_pc' = "done"
                /\ f_measure_encs' = [j \in 1..Len(track_ids) |-> Val(encs[j])]
        /\ UNCHANGED measure_enc_lookup

FwdNext ==
    \/ \E table \in LookupTables :
          LoadLookup(table) /\ UNCHANGED <<aggVars, genVars, maskVars>>
    \/ \E n \in 1..MaxBatch :
          \E track_ids \in [1..n -> FwdTrackIds], measure_ids \in [1..n -> FwdMeasureIds] :
             Forward(track_ids, measure_ids) /\ UNCHANGED <<aggVars, genVars, maskVars>>

\* ------------------------------------------------------------------------
\* ConditionalLSTM.generate
\* ------------------------------------------------------------------------

\* Bound: the largest melody_length
MaxMelodyLength == 7

\* Inputs: the seeds, the tokens a decoding step can sample, the 9 tokens the
\* bass model generated (its last three cut off) and the index groups the
\* measure splitter can return for them
Seeds == { <<60, 8, 8>>, <<60, 8, 8, 62, 8, 8>> }
SampleTokens == {24, 25, 127}
BassOutput == <<60, 8, 8, 62, 8, 8, 64, 8, 8>>

\* A model is its parameters: the token embedding table, the position
\* embedding table and the weight of the recurrent network.  Vectors are
\* scalars; the embedding sizes of the models are taken to agree.
BassModel ==
    [token_embedding |-> [t \in 0..127 |-> t % 5],
     pos_embedding |-> [q \in 0..2 |-> q],
     lstm |-> 2]

\* A conditional model with parameters of its own
MelodyModel ==
    [token_embedding |-> [t \in 0..127 |-> t % 3],
     pos_embedding |-> [q \in 0..2 |-> 2 - q],
     lstm |-> 3]

\* A conditional model whose embedding tables happen to equal the bass model's
MelodyModelSameEmbeddings ==
    [token_embedding |-> BassModel.token_embedding,
     pos_embedding |-> BassModel.pos_embedding,
     lstm |-> 3]

SelfModels == {MelodyModel, MelodyModelSameEmbeddings}

\* nn.Embedding: a table lookup per id
Embedding(table, ids) == [j \in 1..Len(ids) |-> table[ids[j]]]

\* torch.tensor([0, 1, 2]).repeat(...)[:, :seq_len]
PosIds(seq_len) == [j \in 1..seq_len |-> (j - 1) % 3]

\* torch.cat((token_embeds, pos_embeds), dim=2)
FullEmbeds(token_embeds, pos_embeds) ==
    [j \in 1..Len(token_embeds) |-> <<token_embeds[j], pos_embeds[j]>>]

\* nn.LSTM: output j depends on the weight and on inputs 1..j (an integer
\* recurrence stands for the cell)
RECURSIVE Lstm(_, _)
Lstm(weight, embeds) ==
    IF embeds = <<>> THEN <<>>
    ELSE LET n == Len(embeds)
             before == Lstm(weight, SubSeq(embeds, 1, n - 1))
             h == IF n = 1 THEN 0 ELSE before[n - 1]
         IN  Append(before, (h \div 2) + weight * (embeds[n][1] + embeds[n][2]))

\* The hidden vectors generate_measure_encodings computes for one token
\* sequence: the model's own embeddings and recurrent network
MeasureEncodingLstmOut(model, token_ids) ==
    Lstm(model.lstm,
         FullEmbeds(Embedding(model.token_embedding, token_ids),
                    Embedding(model.pos_embedding, PosIds(Len(token_ids)))))

\* The hidden vectors phase A of generate computes: self's token and position
\* embeddings fed to the bass model's recurrent network
BassLstmOut(self, model, bass_token_ids) ==
    Lstm(model.lstm,
         FullEmbeds(Embedding(self.token_embedding, bass_token_ids),
                    Embedding(self.pos_embedding, PosIds(Len(bass_token_ids)))))
Splits ==
    { <<>>,
      << <<0, 1, 2, 3, 4, 5, 6, 7, 8>> >>,
      << <<0, 1, 2>>, <<3, 4, 5, 6, 7, 8>> >>,
      << <<0, 1, 2>>, <<3, 4, 5>>, <<6, 7, 8>> >> }

\* Faulty variant: the last index of every group is left out of the mean
BassMeasureEncodings_DropLast(lstm_out, idxs_by_measure) ==
    [j \in 1..Len(idxs_by_measure) |->
        Mean([k \in 1..(Len(idxs_by_measure[j]) - 1) |-> lstm_out[idxs_by_measure[j][k] + 1]])]

\* Phase A: one encoding per index group, the mean of the bass hidden vectors
\* at the group's indices, in group order
BassMeasureEncodings(lstm_out, idxs_by_measure) ==
    [j \in 1..Len(idxs_by_measure) |->
        Mean([k \in 1..Len(idxs_by_measure[j]) |-> lstm_out[idxs_by_measure[j][k] + 1]])]

\* Faulty variant: one entry too few for a 3-token seed
InitialMeasureEncs_Two(enc) == <<enc, enc>>

\* measure_encs at the start of phase B: the first bass encoding, three times
InitialMeasureEncs(enc) == <<enc, enc, enc>>

\* The cursor's initial offset: one quarter note
InitialOffset == 8
\* A measure in 4/4: four quarter notes
MeasureLen == 32

\* all_timings = np.arange(0, 16, 0.125): token -> eighths of a quarter note
AllTimings(advance_idx) == PyIndex([k \in 1..128 |-> k - 1], advance_idx)

\* Faulty variant: the clamp is off by one
CondIndex_NoMinusOne(measure, num) == Min(measure, num)

\* The index of the conditioning vector of a decoding step
CondIndex(measure, num) == Min(measure, num - 1)

\* Faulty variant: an offset of exactly one measure wraps
Wraps_Inclusive(offset) == offset >= MeasureLen

\* The measure-boundary test of the advance update
Wraps(offset) == offset > MeasureLen

\* Faulty variant: the pitch slot is taken for the advance slot
IsAdvanceSlot_Pitch(idx) == idx % 3 = 0

\* The advance-slot test of a decoding step
IsAdvanceSlot(idx) == idx % 3 = 2

\* Faulty variant: one measure per boundary the offset has passed
NextMeasure_PerBoundary(measure, offset) == measure + (offset \div MeasureLen)

\* The measure after an advance update that wrapped (offset: the sum before the wrap)
NextMeasure(measure, offset) == measure + 1

\* Faulty variant: the wrap subtracts one measure
WrapOffset_Subtract(offset) == offset - MeasureLen

\* The offset after an advance update that wrapped
WrapOffset(offset) == offset % MeasureLen

\* Faulty variant: generation stops as soon as the last bass measure is reached
PastBass_Inclusive(measure, num) == measure >= num

\* The early-termination test
PastBass(measure, num) == measure > num

GenInit ==
    /\ g_pc = "idle"
    /\ self_model = None
    /\ bass_lstm_out = Unbound
    /\ bassline_model = None
    /\ melody_condition = <<>>
    /\ melody_length = 0
    /\ bass_output_idxs_by_measure = <<>>
    /\ num_bass_measures = 0
    /\ bass_measure_encodings = Unbound
    /\ output = <<>>
    /\ measure_encs = <<>>
    /\ cur_measure = 0
    /\ measure_offset = 0
    /\ i = 0

\* The call up to the start of the decoding loop: phase A when a bass model is
\* given (split is what the measure splitter returns), then the set-up of
\* phase B.  torch.stack of no encodings raises; so does reading
\* bass_measure_encodings when phase A never bound it.
Generate(self, model, condition, length, split) ==
    /\ g_pc = "idle"
    /\ self_model' = Some(self)
    /\ bass_lstm_out' = IF model # None
                        THEN Some(BassLstmOut(self, Val(model), BassOutput))
                        ELSE bass_lstm_out
    /\ bassline_model' = model
    /\ melody_condition' = condition
    /\ melody_length' = length
    /\ i' = 0
    /\ IF model # None
       THEN /\ bass_output_idxs_by_measure' = split
            /\ num_bass_measures' = Len(split)
       ELSE UNCHANGED <<bass_output_idxs_by_measure, num_bass_measures>>
    /\ IF model # None /\ Len(split) = 0
       THEN \* torch.stack([]) raises in phase A
            /\ g_pc' = "error"
            /\ UNCHANGED <<bass_measure_encodings, output, measure_encs, cur_measure, measure_offset>>
       ELSE /\ bass_measure_encodings' =
                  IF model # None THEN Some(BassMeasureEncodings(Val(bass_lstm_out'), split))
                                  ELSE bass_measure_encodings
            /\ output' = condition
            /\ LET first == IF bass_measure_encodings' = Unbound
                            THEN None
                            ELSE PyIndex(Val(bass_measure_encodings'), 0)
               IN  IF first = None
                   THEN /\ g_pc' = "error"
                        /\ UNCHANGED <<measure_encs, cur_measure, measure_offset>>
                   ELSE /\ measure_encs' = InitialMeasureEncs(Val(first))
                        /\ cur_measure' = 0
                        /\ measure_offset' = InitialOffset
                        /\ g_pc' = "loop"

\* One iteration of the decoding loop, sampling the token prev
Step(prev) ==
    /\ g_pc = "loop"
    /\ i < melody_length
    /\ i' = i + 1
    /\ UNCHANGED <<self_model, bass_lstm_out, bassline_model, melody_condition, melody_length,
                   bass_output_idxs_by_measure, num_bass_measures, bass_measure_encodings>>
    /\ IF Len(output) # Len(measure_encs)
       THEN \* torch.cat of embeddings of different sequence lengths raises
            /\ g_pc' = "error"
            /\ UNCHANGED <<output, measure_encs, cur_measure, measure_offset>>
       ELSE /\ output' = Append(output, prev)
            /\ LET cur_measure_enc ==
                      PyIndex(Val(bass_measure_encodings), CondIndex(cur_measure, num_bass_measures))
                   timing == AllTimings(prev)
               IN  IF cur_measure_enc = None
                   THEN /\ g_pc' = "error"
                        /\ UNCHANGED <<measure_encs, cur_measure, measure_offset>>
                   ELSE /\ measure_encs' = Append(measure_encs, Val(cur_measure_enc))
                        /\ IF IsAdvanceSlot(i)
                           THEN IF timing = None
                                THEN /\ g_pc' = "error"
                                     /\ UNCHANGED <<cur_measure, measure_offset>>
                                ELSE IF Wraps(measure_offset + Val(timing))
                                     THEN /\ cur_measure' = NextMeasure(cur_measure, measure_offset + Val(timing))
                                          /\ measure_offset' = WrapOffset(measure_offset + Val(timing))
                                          /\ g_pc' = IF PastBass(cur_measure', num_bass_measures)
                                                     THEN "done" ELSE "loop"
                                     ELSE /\ cur_measure' = cur_measure
                                          /\ measure_offset' = measure_offset + Val(timing)
                                          /\ g_pc' = "loop"
                           ELSE /\ g_pc' = "loop"
                                /\ UNCHANGED <<cur_measure, measure_offset>>

\* The loop ran melody_length times: the call returns
Return ==
    /\ g_pc = "loop"
    /\ i = melody_length
    /\ g_pc' = "done"
    /\ UNCHANGED <<self_model, bass_lstm_out, bassline_model, melody_condition, melody_length,
                   bass_output_idxs_by_measure, num_bass_measures, bass_measure_encodings, output, measure_encs,
                   cur_measure, measure_offset, i>>

GenNext ==
    \/ \E self \in SelfModels, model \in {None, Some(BassModel)}, condition \in Seeds,
          length \in 0..MaxMelodyLength, split \in Splits :
          Generate(self, model, condition, length, split) /\ UNCHANGED <<aggVars, fwdVars, maskVars>>
    \/ \E prev \in SampleTokens : Step(prev) /\ UNCHANGED <<aggVars, fwdVars, maskVars>>
    \/ Return /\ UNCHANGED <<aggVars, fwdVars, maskVars>>

\* ------------------------------------------------------------------------
\* mask_logits (UnconditionalLSTM and ConditionalLSTM: the same code)
\* ------------------------------------------------------------------------

\* The sentinel -1e10; logits are counted in units of 1e9
Sentinel == -10

\* Row length (vocabulary size) of the logits
VocabSize == 3
LogitVals == {-20, 0, 1}
BatchSizes == {1, 2}
Rows == [1..VocabSize -> LogitVals]
Ks == {None} \cup {Some(n) : n \in 0..(VocabSize + 1)}

\* The largest value of a non-empty row
RowMax(row) == CHOOSE v \in {row[j] : j \in 1..Len(row)} : \A j \in 1..Len(row) : row[j] <= v

\* The row without its first occurrence of v
RECURSIVE RemoveOne(_, _)
RemoveOne(row, v) ==
    IF row = <<>> THEN <<>>
    ELSE IF Head(row) = v THEN Tail(row)
    ELSE <<Head(row)>> \o RemoveOne(Tail(row), v)

\* torch.topk(row, n)[0]: the n largest values, in descending order
RECURSIVE TopK(_, _)
TopK(row, n) ==
    IF n = 0 THEN <<>>
    ELSE <<RowMax(row)>> \o TopK(RemoveOne(row, RowMax(row)), n - 1)

\* Faulty variant: logits equal to the cutoff are replaced too
Masked_Inclusive(logit, batch_min) == IF logit <= batch_min THEN Sentinel ELSE logit

\* torch.where(logits < batch_mins, -1e10, logits), one element
Masked(logit, batch_min) == IF logit < batch_min THEN Sentinel ELSE logit

MaskIdle ==
    /\ m_pc = "idle"
    /\ m_logits = <<>>
    /\ m_k = None
    /\ m_masked = <<>>

\* A call with arguments logits and k
MaskInit ==
    /\ m_pc = "called"
    /\ \E b \in BatchSizes : m_logits \in [1..b -> Rows]
    /\ m_k \in Ks
    /\ m_masked = <<>>

\* The body of mask_logits.  torch.topk raises when k exceeds the row length;
\* values[:, -1] raises when k = 0 (no column to index).
MaskLogits ==
    /\ m_pc = "called"
    /\ UNCHANGED <<m_logits, m_k>>
    /\ IF m_k = None
       THEN /\ m_masked' = m_logits
            /\ m_pc' = "done"
       ELSE IF Val(m_k) > VocabSize \/ Val(m_k) = 0
            THEN /\ m_pc' = "error"
                 /\ UNCHANGED m_masked
            ELSE /\ m_masked' =
                       [r \in 1..Len(m_logits) |->
                           LET values == TopK(m_logits[r], Val(m_k))
                               batch_min == values[Len(values)]
                           IN  [j \in 1..VocabSize |-> Masked(m_logits[r][j], batch_min)]]
                 /\ m_pc' = "done"

MaskNext == MaskLogits /\ UNCHANGED <<aggVars, fwdVars, genVars>>

\* ------------------------------------------------------------------------
\* Specifications: one program runs, the others are idle
\* ------------------------------------------------------------------------

AggIdle ==
    /\ a_pc = "idle"
    /\ buffer_threshold = InitialThreshold
    /\ buffer_dict = EmptyDict
    /\ track_id_to_measure_encodings = EmptyDict
    /\ seen = <<>>
    /\ epochs = <<>>

InitAgg == AggInit /\ FwdInit /\ GenInit /\ MaskIdle
SpecAgg == InitAgg /\ [][AggNext]_vars

InitScenario == AggInit /\ FwdInit /\ GenInit /\ MaskIdle
SpecScenario == InitScenario /\ [][ScenarioNext]_vars

InitFwd == AggIdle /\ FwdInit /\ GenInit /\ MaskIdle
SpecFwd == InitFwd /\ [][FwdNext]_vars

InitGen == AggIdle /\ FwdInit /\ GenInit /\ MaskIdle
SpecGen == InitGen /\ [][GenNext]_vars

\* A call that entered the decoding loop keeps running: the loop body and the
\* return are plain sequential code
Running ==
    /\ (\E prev \in SampleTokens : Step(prev)) \/ Return
    /\ UNCHANGED <<aggVars, fwdVars, maskVars>>

InitMask == AggIdle /\ FwdInit /\ GenInit /\ MaskInit
SpecMask == InitMask /\ [][MaskNext]_vars

SpecGenFair == InitGen /\ [][GenNext]_vars /\ WF_vars(Running)

\* ------------------------------------------------------------------------
\* Claims about generate_measure_encodings
\* ------------------------------------------------------------------------

SameKey(p, q) == p.track = q.track /\ p.measure = q.measure

\* No (track, measure) key has positions buffered on both sides of a flush
NoStraddle ==
    \A p, q \in 1..Len(seen) : SameKey(seen[p], seen[q]) => epochs[p] = epochs[q]

NonDecreasing(s) == \A p, q \in 1..Len(s) : p <= q => s[p].track <= s[q].track

\* The hidden vectors of one key, in dataset order
HiddenOf(s, t, m) ==
    LET sel == SelectSeq(s, LAMBDA p : p.track = t /\ p.measure = m)
    IN  [j \in 1..Len(sel) |-> sel[j].hidden]

\* The direct grouped mean over a whole dataset
GroupedMean(s) ==
    [t \in {s[p].track : p \in 1..Len(s)} |->
        [m \in {s[p].measure : p \in {q \in 1..Len(s) : s[q].track = t}} |->
            Mean(HiddenOf(s, t, m))]]

\* C1: when no key straddles a flush, the table left after the final dump is
\* the direct grouped mean over the whole dataset (same key set, each value the
\* mean of all hidden vectors of the key).
C1_FinalTableIsGroupedMean ==
    (a_pc = "done" /\ NoStraddle) => track_id_to_measure_encodings = GroupedMean(seen)

\* C1 witness: a finished run with an intermediate flush of a non-empty buffer,
\* two tracks in the table and a key averaged over two different vectors.
C1_Witness ==
    /\ a_pc = "done"
    /\ NoStraddle
    /\ buffer_threshold > InitialThreshold
    /\ Cardinality(DOMAIN track_id_to_measure_encodings) >= 2
    /\ \E p, q \in 1..Len(seen) :
          p < q /\ SameKey(seen[p], seen[q]) /\ seen[p].hidden # seen[q].hidden
    /\ epochs[1] = 0 /\ epochs[Len(epochs)] >= 1

\* C2: if the positions arrive in non-decreasing track_id order, no key
\* straddles a flush boundary (stated as claimed; the code violates it when a
\* track id lies more than one increment past the watermark).
C2_SortedNeverStraddles ==
    NonDecreasing(seen) => NoStraddle

\* What one position does to watermark, table and buffer (p is the position)
C3_PositionStep ==
    LET p == seen'[Len(seen')]
        oldBucket == IF p.track \in DOMAIN buffer_dict /\ p.measure \in DOMAIN buffer_dict[p.track]
                     THEN buffer_dict[p.track][p.measure] ELSE <<>>
    IN  IF p.track >= buffer_threshold
        THEN /\ \A t \in DOMAIN buffer_dict : \A m \in DOMAIN buffer_dict[t] :
                    /\ t \in DOMAIN track_id_to_measure_encodings'
                    /\ m \in DOMAIN track_id_to_measure_encodings'[t]
                    /\ track_id_to_measure_encodings'[t][m] = Mean(buffer_dict[t][m])
             /\ \A t \in DOMAIN track_id_to_measure_encodings :
                  \A m \in DOMAIN track_id_to_measure_encodings[t] :
                    (t \notin DOMAIN buffer_dict \/ m \notin DOMAIN buffer_dict[t])
                       => track_id_to_measure_encodings'[t][m] = track_id_to_measure_encodings[t][m]
             /\ buffer_threshold' = buffer_threshold + buffer_threshold_increment
             /\ DOMAIN buffer_dict' = {p.track}
             /\ DOMAIN buffer_dict'[p.track] = {p.measure}
             /\ buffer_dict'[p.track][p.measure] = <<p.hidden>>
        ELSE /\ buffer_threshold' = buffer_threshold
             /\ track_id_to_measure_encodings' = track_id_to_measure_encodings
             /\ buffer_dict'[p.track][p.measure] = Append(oldBucket, p.hidden)
             /\ \A t \in DOMAIN buffer_dict : \A m \in DOMAIN buffer_dict[t] :
                    (t # p.track \/ m # p.measure) => buffer_dict'[t][m] = buffer_dict[t][m]

RECURSIVE HiddenInEpoch(_, _, _, _)
HiddenInEpoch(n, t, m, e) ==
    IF n = 0
    THEN <<>>
    ELSE LET rest == HiddenInEpoch(n - 1, t, m, e)
         IN  IF seen[n].track = t /\ seen[n].measure = m /\ epochs[n] = e
             THEN Append(rest, seen[n].hidden)
             ELSE rest

\* The last flush epoch in which key (t, m) was buffered
LastEpoch(t, m) ==
    LET es == {epochs[p] : p \in {q \in 1..Len(seen) : seen[q].track = t /\ seen[q].measure = m}}
    IN  CHOOSE e \in es : \A f \in es : f <= e

\* C16: when the positions of a key are split across flushes the run still
\* completes, and the key's final value is the mean of only the positions
\* buffered in the last flush that contained the key (the later write replaces
\* the earlier one); every key that occurs is in the table.
C16_LastFlushWins ==
    a_pc = "done" =>
        /\ DOMAIN track_id_to_measure_encodings = {seen[p].track : p \in 1..Len(seen)}
        /\ \A p \in 1..Len(seen) :
              LET t == seen[p].track
                  m == seen[p].measure
              IN  /\ m \in DOMAIN track_id_to_measure_encodings[t]
                  /\ track_id_to_measure_encodings[t][m] =
                         Mean(HiddenInEpoch(Len(seen), t, m, LastEpoch(t, m)))

\* C16 witness: a finished run in which a key was buffered on both sides of a
\* flush and its final value is not the mean over all its positions.
C16_Witness ==
    /\ a_pc = "done"
    /\ \E p, q \in 1..Len(seen) :
          /\ SameKey(seen[p], seen[q])
          /\ epochs[p] < epochs[q]
          /\ track_id_to_measure_encodings[seen[p].track][seen[p].measure]
                # GroupedMean(seen)[seen[p].track][seen[p].measure]

\* The number of flushes inside the loop so far
Flushes == IF epochs = <<>> THEN 0 ELSE epochs[Len(epochs)]

\* C11: on track ids 0..149 in increasing order with watermark 100/+100 there
\* is exactly one intermediate flush, triggered at the first position with
\* track_id 100 and writing tracks 0..99, then the final flush writes tracks
\* 100..149; the table ends with exactly one entry per track, none missing and
\* none written by both flushes.
C11_OneFlushThenFinal ==
    /\ Flushes <= 1
    /\ \A p \in 1..Len(seen) : (epochs[p] = 1) <=> (seen[p].track >= 100)
    /\ (a_pc = "loop" /\ Flushes = 0) => track_id_to_measure_encodings = EmptyDict
    /\ (a_pc = "loop" /\ Flushes = 1) =>
          /\ DOMAIN track_id_to_measure_encodings = 0..99
          /\ (DOMAIN buffer_dict) \cap (DOMAIN track_id_to_measure_encodings) = {}
    /\ a_pc = "done" =>
          /\ Flushes = 1
          /\ DOMAIN buffer_dict = 100..(ScenarioTracks - 1)
          /\ DOMAIN track_id_to_measure_encodings = 0..(ScenarioTracks - 1)
          /\ Cardinality(DOMAIN track_id_to_measure_encodings) = ScenarioTracks
          /\ \A t \in DOMAIN track_id_to_measure_encodings :
                track_id_to_measure_encodings[t] = GroupedMean(seen)[t]

\* C11 witness: the whole dataset was consumed and the final dump is done
C11_Witness ==
    /\ a_pc = "done"
    /\ Len(seen) = ScenarioTracks * PositionsPerTrack
    /\ seen[Len(seen)].track = ScenarioTracks - 1
    /\ buffer_threshold = 200
    /\ 0 \in DOMAIN track_id_to_measure_encodings
    /\ (ScenarioTracks - 1) \in DOMAIN track_id_to_measure_encodings

\* ------------------------------------------------------------------------
\* Claims about ConditionalLSTM.generate
\* ------------------------------------------------------------------------

\* A decoding step that did not raise
DecodingStep == g_pc = "loop" /\ i' = i + 1 /\ g_pc' # "error"

\* C4: called with no bass model, phase A does not run, the call does not
\* fail and every conditioning vector is the zero vector (stated as claimed;
\* the code raises when it reads the encodings phase A never bound).
C4_NoBassModelZeroConditioning ==
    (g_pc # "idle" /\ bassline_model = None) =>
        /\ g_pc # "error"
        /\ bass_measure_encodings = Unbound
        /\ \A j \in 1..Len(measure_encs) : measure_encs[j] = ZeroVec

\* What a decoding step appends to the accumulator
C5_StepCondition ==
    LET idx == IF cur_measure < num_bass_measures - 1 THEN cur_measure ELSE num_bass_measures - 1
    IN  /\ g_pc' # "error"
        /\ idx >= 0 /\ idx <= num_bass_measures - 1
        /\ measure_encs' = Append(measure_encs, Val(bass_measure_encodings)[idx + 1])

\* C5: in every decoding step the conditioning vector appended is the bass
\* encoding at index min(current_measure, num_bass_measures - 1), taken with
\* the cursor value before the step's advance update; the index lies in
\* 0 .. num_bass_measures - 1 and the lookup never raises.
C5_ClampedConditioning ==
    [][(g_pc = "loop" /\ i' = i + 1 /\ Len(output) = Len(measure_encs)) => C5_StepCondition]_vars

\* C5 witness: with two bass measures the cursor has reached measure 2 and a
\* later step has used the clamped index: the accumulator holds the first
\* encoding at its start and the last one at its end.
C5_Witness ==
    /\ g_pc = "loop"
    /\ num_bass_measures = 2
    /\ cur_measure = 2
    /\ i = 7
    /\ measure_encs[1] = Val(bass_measure_encodings)[1]
    /\ measure_encs[Len(measure_encs)] = Val(bass_measure_encodings)[2]
    /\ Val(bass_measure_encodings)[1] # Val(bass_measure_encodings)[2]

\* C6 (as claimed): phase B stops before melody_length steps exactly when
\* current_measure is strictly greater than num_bass_measures.  The code
\* violates the "exactly when": a break in the last step leaves
\* current_measure > num_bass_measures with all melody_length steps run.
C6_StopsEarlyExactlyWhenPast ==
    g_pc = "done" => ((i < melody_length) <=> (cur_measure > num_bass_measures))

\* The cursor against the bass length, and when a decoding step breaks
C6_Inv ==
    /\ g_pc = "loop" => cur_measure <= num_bass_measures
    /\ g_pc \in {"loop", "done"} => cur_measure <= num_bass_measures + 1
    /\ g_pc = "done" => /\ i <= melody_length
                        /\ i < melody_length => cur_measure > num_bass_measures
                        /\ cur_measure <= num_bass_measures => i = melody_length

C6_StepCondition ==
    /\ (g_pc' = "done") <=>
          /\ i % 3 = 2
          /\ measure_offset + output'[Len(output')] > 32
          /\ cur_measure' > num_bass_measures
    /\ cur_measure' = num_bass_measures => g_pc' = "loop"

\* C6 (amended): a decoding step leaves the loop exactly when it is an
\* advance step that wrapped the offset and left current_measure strictly
\* greater than num_bass_measures; a run that stopped before melody_length
\* steps has current_measure > num_bass_measures, every other run has executed
\* all melody_length steps (among them the runs whose break is in the last
\* step).  Decoding continues while current_measure = num_bass_measures, and
\* current_measure never exceeds num_bass_measures + 1.
C6_EarlyTermination ==
    []C6_Inv /\ [][DecodingStep => C6_StepCondition]_vars

\* C6 witness: a run that stopped early, one measure past the bass, after
\* steps taken with current_measure = num_bass_measures.
C6_Witness ==
    /\ g_pc = "done"
    /\ i < melody_length
    /\ num_bass_measures = 1
    /\ cur_measure = 2
    /\ output[6] = 25

\* Equal lengths, and growth by one per step
C7_Inv ==
    (g_pc \in {"loop", "done"} /\ Len(melody_condition) = 3) =>
        Len(measure_encs) = Len(output)

C7_StepCondition ==
    /\ Len(output') = Len(output) + 1
    /\ Len(measure_encs') = Len(measure_encs) + 1

\* C7: with a 3-token seed the conditioning accumulator and the token output
\* have the same length at the start of every decoding step and at the end of
\* the run, and every decoding step grows each by exactly one entry.
C7_Lockstep ==
    []C7_Inv /\ [][(g_pc = "loop" /\ i' = i + 1 /\ Len(melody_condition) = 3) => C7_StepCondition]_vars

\* C7 witness: a finished run of the largest length from a 3-token seed
C7_Witness ==
    /\ g_pc = "done"
    /\ Len(melody_condition) = 3
    /\ i = MaxMelodyLength
    /\ Len(output) = 3 + MaxMelodyLength
    /\ Len(measure_encs) = 3 + MaxMelodyLength

\* The advance tokens of a melody with a 3-token seed: every third token
\* after the seed
Script(out) == [j \in 1..((Len(out) \div 3) - 1) |-> out[3 * (j + 1)]]

\* The cursor by hand: from (measure 0, offset 1 quarter note = 8 eighths) each
\* advance token t adds t eighths; an offset strictly greater than 32 eighths
\* adds one measure and becomes offset mod 32.
RECURSIVE HandCursor(_)
HandCursor(script) ==
    IF script = <<>>
    THEN <<0, 8>>
    ELSE LET c   == HandCursor(SubSeq(script, 1, Len(script) - 1))
             off == c[2] + script[Len(script)]
         IN  IF off > 32 THEN <<c[1] + 1, off % 32>> ELSE <<c[1], off>>

\* C8: for any sequence of advance tokens the cursor equals the hand-computed
\* wraparound arithmetic after every step; an offset of exactly 4 quarter notes
\* does not advance the measure.
C8_CursorMatchesHand ==
    (g_pc \in {"loop", "done"} /\ Len(melody_condition) = 3) =>
        <<cur_measure, measure_offset>> = HandCursor(Script(output))

\* C8 witness: the first advance token brings the offset to exactly 4 quarter
\* notes (no new measure), the second wraps it.
C8_Witness ==
    /\ g_pc \in {"loop", "done"}
    /\ Len(melody_condition) = 3
    /\ Len(output) >= 9
    /\ output[6] = 24
    /\ output[9] = 25
    /\ cur_measure = 1
    /\ measure_offset = 25

\* C10: called with melody_length = 0 the call returns the seed as the melody
\* and leaves the cursor at (measure 0, offset 1) (stated as claimed; with no
\* bass model the call raises before the loop, see C4).
C10_ZeroLengthReturnsSeed ==
    (g_pc \in {"done", "error"} /\ melody_length = 0) =>
        /\ g_pc = "done"
        /\ output = melody_condition
        /\ cur_measure = 0
        /\ measure_offset = InitialOffset

\* The sum of the hidden vectors at the (0-based) indices idxs
RECURSIVE SumAt(_, _)
SumAt(hidden, idxs) ==
    IF idxs = <<>> THEN 0 ELSE hidden[Head(idxs) + 1] + SumAt(hidden, Tail(idxs))

\* C12: phase A yields as many bass-measure encodings as the splitter
\* returned index groups, in group order, encoding j being the mean of the
\* hidden vectors at exactly the indices of group j; for the groups
\* [[0,1,2],[3,4,5,6,7,8]] that is exactly 2 encodings, over 0..2 and 3..8.
C12_OneMeanPerGroup ==
    (g_pc \in {"loop", "done"} /\ bassline_model # None) =>
        LET enc == Val(bass_measure_encodings)
            hidden == Val(bass_lstm_out)
            groups == bass_output_idxs_by_measure
        IN  /\ Len(enc) = Len(groups)
            /\ num_bass_measures = Len(groups)
            /\ \A j \in 1..Len(groups) :
                  /\ enc[j][2] > 0
                  /\ enc[j][1] * Len(groups[j]) = enc[j][2] * SumAt(hidden, groups[j])
            /\ groups = << <<0, 1, 2>>, <<3, 4, 5, 6, 7, 8>> >> =>
                  /\ Len(enc) = 2
                  /\ 3 * enc[1][1] = enc[1][2] * (hidden[1] + hidden[2] + hidden[3])
                  /\ 6 * enc[2][1] = enc[2][2] * (hidden[4] + hidden[5] + hidden[6]
                                                   + hidden[7] + hidden[8] + hidden[9])

\* C12 witness: phase A ran on the groups [[0,1,2],[3,...,8]] and gave two
\* different encodings.
C12_Witness ==
    /\ g_pc = "loop"
    /\ i = 0
    /\ bassline_model # None
    /\ bass_output_idxs_by_measure = << <<0, 1, 2>>, <<3, 4, 5, 6, 7, 8>> >>
    /\ Len(Val(bass_measure_encodings)) = 2
    /\ Val(bass_measure_encodings)[1] # Val(bass_measure_encodings)[2]

\* C17: the hidden vectors phase A averages are the bass model's own hidden
\* states over its output, computed as generate_measure_encodings computes
\* them (bass token embedding, bass position embedding, bass recurrent
\* network), with no part of the conditional model (stated as claimed; the
\* code embeds the bass tokens with the conditional model's tables).
C17_PhaseAUsesBassPipeline ==
    (g_pc \in {"loop", "done"} /\ bassline_model # None) =>
        bass_lstm_out = Some(MeasureEncodingLstmOut(Val(bassline_model), BassOutput))

\* C14: during one run current_measure never decreases: every decoding step
\* leaves it unchanged or adds exactly 1, also when one advance token moves
\* the offset past more than one measure boundary.
C14_MeasureStepsByOne ==
    [][(g_pc = "loop" /\ i' = i + 1) =>
          (cur_measure' = cur_measure \/ cur_measure' = cur_measure + 1)]_vars

\* C14 witness: the first advance token was 127 (offset 8 + 127 eighths, past
\* four measure boundaries) and the measure is 1.
C14_Witness ==
    /\ g_pc = "loop"
    /\ Len(melody_condition) = 3
    /\ i = 3
    /\ output[6] = 127
    /\ cur_measure = 1
    /\ measure_offset = 7

\* C15: the cursor starts at (measure 0, offset 1 quarter note) and a
\* decoding step with index i changes it only when i mod 3 = 2; a step with
\* i mod 3 in {0, 1} leaves measure and offset unchanged whatever was sampled.
C15_CursorFrame ==
    [][/\ (g_pc = "idle" /\ g_pc' = "loop") => (cur_measure' = 0 /\ measure_offset' = 8)
       /\ (g_pc = "loop" /\ i' = i + 1 /\ i % 3 \in {0, 1}) =>
             (cur_measure' = cur_measure /\ measure_offset' = measure_offset)]_vars

\* C15 witness: two steps after the first advance update the cursor still has
\* the value that update gave it.
C15_Witness ==
    /\ g_pc = "loop"
    /\ Len(melody_condition) = 3
    /\ i = 5
    /\ output[6] = 25
    /\ output[7] = 127
    /\ output[8] = 127
    /\ cur_measure = 1
    /\ measure_offset = 1

\* C18: after every decoding step the offset within the measure lies in
\* 0 .. 4 quarter notes (0 .. 32 eighths).
C18_OffsetInMeasure ==
    g_pc \in {"loop", "done"} => (measure_offset >= 0 /\ measure_offset <= 32)

\* C18 witness: both ends of the range after an advance update: offset 32
\* (8 + 24) and, two updates later, offset 0 (1 + 127 = 128 = 4 * 32).
C18_Witness ==
    /\ g_pc \in {"loop", "done"}
    /\ Len(melody_condition) = 3
    /\ Len(output) >= 9
    /\ output[6] = 25
    /\ output[9] = 127
    /\ measure_offset = 0

\* The shape of the melody during and after phase B with a 3-token seed
C19_Shape ==
    (g_pc \in {"loop", "done"} /\ Len(melody_condition) = 3) =>
        /\ i <= melody_length
        /\ Len(output) = 3 + i
        /\ SubSeq(output, 1, 3) = melody_condition
        /\ g_pc = "done" =>
              IF PastBass(cur_measure, num_bass_measures)
              THEN Len(output) % 3 = 0 /\ Len(output) <= 3 + melody_length
              ELSE Len(output) = 3 + melody_length

\* C19: phase B with a 3-token seed always terminates, after at most
\* melody_length decoding steps; the returned melody starts with the seed, has
\* length 3 + melody_length without early termination, and after an early
\* termination a length that is a multiple of 3 and at most 3 + melody_length.
C19_TerminatesWithWholeTriples ==
    /\ []C19_Shape
    /\ (g_pc = "loop" /\ Len(melody_condition) = 3) ~> (g_pc = "done")

\* C19 witness: a run with a 3-token seed that ended early, after two whole
\* triples, short of 3 + melody_length tokens.
C19_Witness ==
    /\ g_pc = "done"
    /\ Len(melody_condition) = 3
    /\ PastBass(cur_measure, num_bass_measures)
    /\ Len(output) = 9
    /\ Len(output) < 3 + melody_length
    /\ SubSeq(output, 1, 3) = melody_condition

\* ------------------------------------------------------------------------
\* Claims about ConditionalLSTM.forward
\* ------------------------------------------------------------------------

\* The result of a forward call against the lookup it read
C9_ForwardResult ==
    /\ f_pc # "error"
    /\ f_pc = "done" =>
          /\ Len(f_measure_encs) = Len(f_track_ids)
          /\ \A j \in 1..Len(f_track_ids) :
                LET t == f_track_ids[j]
                    m == f_measure_ids[j]
                IN  IF measure_enc_lookup # None
                       /\ t \in DOMAIN Val(measure_enc_lookup)
                       /\ m \in DOMAIN Val(measure_enc_lookup)[t]
                    THEN f_measure_encs[j] = Val(measure_enc_lookup)[t][m]
                    ELSE f_measure_encs[j] = ZeroVec

\* C9: a forward call raises no error; a position whose key is absent from
\* the lookup (track missing, or measure missing in a present track), and
\* every position when no lookup is loaded, gets the zero vector; a present key
\* gets exactly the stored encoding.
C9_LookupMissIsZero ==
    [][measure_enc_lookup' = measure_enc_lookup => C9_ForwardResult']_vars

\* C9 witness: a forward call under a loaded table on a present key and on a
\* missing measure of a present track.
C9_Witness ==
    /\ f_pc = "done"
    /\ measure_enc_lookup # None
    /\ f_track_ids = <<0, 1>>
    /\ f_measure_ids = <<1, 0>>
    /\ f_measure_encs = << <<7, 2>>, ZeroVec >>

\* ------------------------------------------------------------------------
\* Claims about mask_logits
\* ------------------------------------------------------------------------

\* v is the n-th largest value of row, by counting: fewer than n entries are
\* greater than v, at least n are greater or equal
IsKthLargest(row, n, v) ==
    /\ Cardinality({j \in 1..Len(row) : row[j] > v}) < n
    /\ Cardinality({j \in 1..Len(row) : row[j] >= v}) >= n

\* C13: with an integer k, every logit strictly less than the row's k-th
\* largest value is replaced by the sentinel and every other logit is left
\* unchanged; logits equal to the k-th largest are kept, so at least k survive
\* per row, and more than k survive exactly when values tied with the cutoff
\* reach beyond the k-th place.
C13_InclusiveCutoff ==
    (m_pc = "done" /\ m_k # None) =>
        \A r \in 1..Len(m_logits) :
            LET row == m_logits[r]
                out == m_masked[r]
                cutoff == CHOOSE v \in LogitVals : IsKthLargest(row, Val(m_k), v)
                survivors == {j \in 1..Len(row) : out[j] # Sentinel}
                greater == {j \in 1..Len(row) : row[j] > cutoff}
                tied == {j \in 1..Len(row) : row[j] = cutoff}
            IN  /\ \E v \in LogitVals : IsKthLargest(row, Val(m_k), v)
                /\ Len(out) = Len(row)
                /\ \A j \in 1..Len(row) :
                      /\ row[j] < cutoff => out[j] = Sentinel
                      /\ row[j] >= cutoff => out[j] = row[j]
                /\ Cardinality(survivors) >= Val(m_k)
                /\ Cardinality(survivors) > Val(m_k)
                      <=> Cardinality(greater) + Cardinality(tied) > Val(m_k)

\* C13 witness: k = 1 on a row with two logits tied at the top and one below:
\* both tied logits survive, the third is replaced.
C13_Witness ==
    /\ m_pc = "done"
    /\ m_k = Some(1)
    /\ m_logits = << <<1, -20, 1>> >>
    /\ m_masked = << <<1, Sentinel, 1>> >>

====
